---------------------------- MODULE Spec2Model ----------------------------
(***************************************************************************)
(* A model of RustAutoComplete.py: the racer worker thread (RacerThread)   *)
(* with its timeout timer, the parsing of racer's output, the environment  *)
(* given to racer, the cargo source-path cache (RustProjectDirWatcher),    *)
(* the completion listener (RustAutocomplete), whose callback runs on the  *)
(* racers' worker threads, and the go-to-definition command.               *)
(*                                                                         *)
(* Python values: a str is a sequence of one-character strings; an         *)
(* optional value is None (the empty tuple) or Some(v) (the one-element    *)
(* tuple), so that None, "" and 0 stay three different values.             *)
(***************************************************************************)
EXTENDS Integers, Sequences, FiniteSets, TLC

VARIABLES
    \* ---- one RacerThread, its child process and its timeout timer
    with_snippet,   \* RacerThread.with_snippet
    output,         \* the bytes the child writes to stdout when it exits by itself
    process,        \* RacerThread.process: None or Some("Popen")
    returncode,     \* the child's exit status: None while it runs
    exit_code,      \* run()'s local exit_code: None or Some(int)
    thread_results, \* RacerThread.results
    run_pc,         \* where run() stands
    kill_pc,        \* where the timer's kill() stands
    callback_calls, \* the argument of every call of RacerThread.callback, in order
    fired_late,     \* history: the child had ended already when the timer fired
    \* ---- the editor, RustProjectDirWatcher and RustAutocomplete
    cursor,         \* what get_completions_id() returns: (view id, line, column)
    cargo_bin,      \* Settings.cargo_bin
    file_names_cache,   \* RustProjectDirWatcher.file_names_cache, a dict
    completions_id, \* RustAutocomplete.completions_id
    results,        \* RustAutocomplete.results
    racers,         \* the RacerThreads started by on_query_completions, in order
    auto_complete,  \* the auto_complete command was run and the popup not yet asked for
    event,          \* history: the last handler that ran, and what it returned
    reloaded,       \* history: the files loaded and not looked up since
    query_pc,       \* where on_query_completions stands, on the editor's thread
    results_from,   \* history: the identity of the racer whose callback stored results
    \* ---- the environment a RacerThread gives to its child
    environ,        \* os.environ.get('RUST_SRC_PATH', '') when the thread is built
    search_paths,   \* Settings.search_paths
    thread_src_path,    \* RacerThread.src_path: None, or Some(str)
    env             \* env['RUST_SRC_PATH'] of _get_racer_environment: None before it ran

racerVars == <<with_snippet, output, process, returncode, exit_code,
               thread_results, run_pc, kill_pc, callback_calls, fired_late>>

editorVars == <<cursor, cargo_bin, file_names_cache, completions_id, results,
                racers, auto_complete, event, reloaded, query_pc, results_from>>

envVars == <<environ, search_paths, thread_src_path, env>>

vars == <<racerVars, editorVars, envVars>>

-----------------------------------------------------------------------------
\* Bounds of the model

\* the most lines the child writes to stdout
MaxLines == 2

-----------------------------------------------------------------------------
\* Python values

None == << >>
Some(v) == <<v>>
Val(o) == o[1]

\* a Python truth test of an optional int (None and 0 are falsy)
Falsy(o) == o = None \/ o = Some(0)

-----------------------------------------------------------------------------
\* str operations, as the code uses them

\* the index of the first c in s, 0 when there is none
FirstIndex(s, c) ==
    IF \E i \in 1..Len(s) : s[i] = c
    THEN CHOOSE i \in 1..Len(s) : s[i] = c /\ \A j \in 1..(i - 1) : s[j] # c
    ELSE 0

startswith(s, prefix) ==
    /\ Len(s) >= Len(prefix)
    /\ SubSeq(s, 1, Len(prefix)) = prefix

\* s.split(sep, maxsplit): at most maxsplit cuts, so at most maxsplit + 1 parts
RECURSIVE split(_, _, _)
split(s, sep, maxsplit) ==
    LET i == FirstIndex(s, sep) IN
    IF maxsplit = 0 \/ i = 0
    THEN <<s>>
    ELSE <<SubSeq(s, 1, i - 1)>> \o split(SubSeq(s, i + 1, Len(s)), sep, maxsplit - 1)

\* bytes.splitlines(): cuts at "\n", "\r" and "\r\n"; no empty last line
RECURSIVE splitlines(_)
splitlines(s) ==
    IF s = << >> THEN << >>
    ELSE LET ends == {i \in 1..Len(s) : s[i] \in {"\n", "\r"}} IN
         IF ends = {} THEN <<s>>
         ELSE LET i == CHOOSE k \in ends : \A j \in ends : k <= j
                  n == IF s[i] = "\r" /\ i < Len(s) /\ s[i + 1] = "\n" THEN i + 1 ELSE i
              IN  <<SubSeq(s, 1, i - 1)>> \o splitlines(SubSeq(s, n + 1, Len(s)))

\* list.insert(1, x) of the find-definition branch
insert(parts, idx, x) ==
    LET k == IF idx > Len(parts) THEN Len(parts) ELSE idx IN
    SubSeq(parts, 1, k) \o <<x>> \o SubSeq(parts, k + 1, Len(parts))

\* sep.join(parts)
RECURSIVE join(_, _)
join(parts, sep) ==
    IF parts = << >> THEN << >>
    ELSE IF Len(parts) = 1 THEN parts[1]
    ELSE parts[1] \o sep \o join(Tail(parts), sep)

\* int(s): blanks around, an optional sign, then decimal digits
Digits == {"0", "1", "2", "3", "4", "5", "6", "7", "8", "9"}
DigitVal == ("0" :> 0) @@ ("1" :> 1) @@ ("2" :> 2) @@ ("3" :> 3) @@ ("4" :> 4) @@
            ("5" :> 5) @@ ("6" :> 6) @@ ("7" :> 7) @@ ("8" :> 8) @@ ("9" :> 9)

RECURSIVE strip(_)
strip(s) ==
    IF s = << >> THEN s
    ELSE IF s[1] = " " THEN strip(Tail(s))
    ELSE IF s[Len(s)] = " " THEN strip(SubSeq(s, 1, Len(s) - 1))
    ELSE s

Unsigned(s) ==
    LET t == strip(s) IN
    IF t # << >> /\ t[1] \in {"+", "-"} THEN Tail(t) ELSE t

IsIntLiteral(s) ==
    LET d == Unsigned(s) IN d # << >> /\ \A i \in 1..Len(d) : d[i] \in Digits

RECURSIVE DecimalVal(_)
DecimalVal(d) ==
    IF d = << >> THEN 0
    ELSE 10 * DecimalVal(SubSeq(d, 1, Len(d) - 1)) + DigitVal[d[Len(d)]]

int(s) ==
    LET t == strip(s) IN
    IF t[1] = "-" THEN 0 - DecimalVal(Unsigned(s)) ELSE DecimalVal(Unsigned(s))

-----------------------------------------------------------------------------
\* The text protocol of racer

match_string == <<"M", "A", "T", "C", "H", " ">>
dev_stdin == <<"/", "d", "e", "v", "/", "s", "t", "d", "i", "n">>

\* RacerThread.file_name: the path of the buffer the request was made in
file_name == <<"/", "p", "/", "a">>

\* The exception Result.__init__ raises on parts, "" when it raises none:
\* the fields are read in order, a missing one is an IndexError and a row or
\* column that is no integer a ValueError.
ResultError(parts) ==
    IF Len(parts) < 3 THEN "IndexError"
    ELSE IF ~IsIntLiteral(parts[3]) THEN "ValueError"
    ELSE IF Len(parts) < 4 THEN "IndexError"
    ELSE IF ~IsIntLiteral(parts[4]) THEN "ValueError"
    ELSE IF Len(parts) < 7 THEN "IndexError"
    ELSE ""

Result(parts) ==
    [completion |-> parts[1],
     snippet    |-> parts[2],
     row        |-> int(parts[3]),
     column     |-> int(parts[4]),
     path       |-> parts[5],
     type       |-> parts[6],
     context    |-> parts[7]]

\* the parts run() cuts a MATCH line into
line_parts(line, snippet) ==
    LET rest == SubSeq(line, Len(match_string) + 1, Len(line)) IN
    IF snippet
    THEN split(rest, ";", 7)
    ELSE insert(split(rest, ",", 6), 1, << >>)

\* append_result without its test of the result's path against the file's
append_result_unfiltered(acc, result, fname) ==
    IF result.path = dev_stdin
    THEN Append(acc, [result EXCEPT !.path = fname])
    ELSE Append(acc, result)

\* the body of run()'s loop for one MATCH line whose Result is built: the
\* results with the line's result appended, or not
append_result(acc, result, fname) ==
    IF result.path = fname THEN acc
    ELSE IF result.path = dev_stdin
         THEN Append(acc, [result EXCEPT !.path = fname])
         ELSE Append(acc, result)

\* run()'s loop over the lines: the error that ended it ("" for none) and the
\* results built until then
RECURSIVE parse_lines(_, _, _, _)
parse_lines(lines, snippet, fname, acc) ==
    IF lines = << >> THEN [error |-> "", results |-> acc]
    ELSE LET line == Head(lines) IN
         IF ~startswith(line, match_string)
         THEN parse_lines(Tail(lines), snippet, fname, acc)
         ELSE LET parts == line_parts(line, snippet) IN
              IF ResultError(parts) # ""
              THEN [error |-> ResultError(parts), results |-> acc]
              ELSE parse_lines(Tail(lines), snippet, fname,
                               append_result(acc, Result(parts), fname))

parse_output(out, snippet, fname) ==
    parse_lines(splitlines(out), snippet, fname, << >>)

-----------------------------------------------------------------------------
\* The outputs the child is given to write

compl_foo == <<"f", "o", "o">>
snip_s == <<"s", "(", ")">>
type_Fn == <<"F", "n">>
other_path == <<"/", "l">>

RawPaths == {dev_stdin, file_name, other_path}

\* a declaration line with and without the delimiter inside it
Contexts(d) == {<<"f", "(", ")">>, <<"f", "(", "a">> \o d \o <<"b", ")">>}

Fields(d, p, r, c) ==
    IF d = <<";">>
    THEN <<compl_foo, snip_s, r, <<"4">>, p, type_Fn, c>>
    ELSE <<compl_foo, r, <<"4">>, p, type_Fn, c>>

\* the lines of one subcommand's output: well-formed MATCH lines, a MATCH line
\* whose row is no number, a MATCH line cut short, and a line that is no MATCH
Lines(d) ==
    {match_string \o join(Fields(d, p, <<"3">>, c), d) : p \in RawPaths, c \in Contexts(d)}
    \cup {match_string \o join(Fields(d, other_path, <<"x">>, <<"f">>), d),
          match_string \o compl_foo \o d \o snip_s,
          <<"E", "N", "D">>}

Delim(snippet) == IF snippet THEN <<";">> ELSE <<",">>

LineSeqs(d) == UNION {[1..n -> Lines(d)] : n \in 0..MaxLines}

RECURSIVE Blob(_)
Blob(lines) ==
    IF lines = << >> THEN << >> ELSE Head(lines) \o <<"\n">> \o Blob(Tail(lines))

Outputs(snippet) == {Blob(ls) : ls \in LineSeqs(Delim(snippet))}

-----------------------------------------------------------------------------
\* RacerThread: run() on the worker thread, kill() on the timer's thread

RacerInit ==
    /\ with_snippet \in BOOLEAN
    /\ output \in Outputs(with_snippet)
    /\ process = Some("Popen")
    /\ returncode = None
    /\ exit_code = None
    /\ thread_results = None
    /\ run_pc = "start"
    /\ kill_pc = "unset"
    /\ callback_calls = << >>
    /\ fired_late = FALSE

\* the child ends by itself, with exit code 0 or another
child_exits ==
    /\ returncode = None
    /\ \E c \in {0, 1} : returncode' = Some(c)
    /\ UNCHANGED <<with_snippet, output, process, exit_code, thread_results,
                   run_pc, kill_pc, callback_calls, fired_late>>

\* run(): sublime.set_timeout_async(self.kill, self.timeout)
run_set_timeout ==
    /\ run_pc = "start"
    /\ run_pc' = "communicate"
    /\ kill_pc' = "armed"
    /\ UNCHANGED <<with_snippet, output, process, returncode, exit_code,
                   thread_results, callback_calls, fired_late>>

\* run(): self.process.communicate(...) returns once the child has ended
run_communicate ==
    /\ run_pc = "communicate"
    /\ returncode # None
    /\ run_pc' = "read_process"
    /\ UNCHANGED <<with_snippet, output, process, returncode, exit_code,
                   thread_results, kill_pc, callback_calls, fired_late>>

\* run(): the left operand of "self.process and self.process.returncode"
run_read_process ==
    /\ run_pc = "read_process"
    /\ IF process = None
       THEN exit_code' = None /\ run_pc' = "parse"
       ELSE exit_code' = exit_code /\ run_pc' = "read_returncode"
    /\ UNCHANGED <<with_snippet, output, process, returncode, thread_results,
                   kill_pc, callback_calls, fired_late>>

\* run(): the right operand, which reads self.process again
run_read_returncode ==
    /\ run_pc = "read_returncode"
    /\ IF process = None
       THEN exit_code' = exit_code /\ run_pc' = "AttributeError"
       ELSE exit_code' = returncode /\ run_pc' = "parse"
    /\ UNCHANGED <<with_snippet, output, process, returncode, thread_results,
                   kill_pc, callback_calls, fired_late>>

\* what run() hands to set_results: the parsed results on exit code 0, and
\* the empty list otherwise
run_results(code, out, snippet, fname) ==
    IF code = Some(0)
    THEN parse_output(out, snippet, fname)
    ELSE [error |-> "", results |-> << >>]

\* run(): the parsing, up to the call of set_results
run_parse ==
    /\ run_pc = "parse"
    /\ LET r == run_results(exit_code, output, with_snippet, file_name) IN
       IF r.error # ""
       THEN run_pc' = r.error /\ thread_results' = thread_results
       ELSE run_pc' = "set_results" /\ thread_results' = Some(r.results)
    /\ UNCHANGED <<with_snippet, output, process, returncode, exit_code,
                   kill_pc, callback_calls, fired_late>>

\* set_results(): self.callback(self.results)
set_results_callback ==
    /\ run_pc = "set_results"
    /\ callback_calls' = Append(callback_calls, Val(thread_results))
    /\ run_pc' = "clear_process"
    /\ UNCHANGED <<with_snippet, output, process, returncode, exit_code,
                   thread_results, kill_pc, fired_late>>

\* set_results(): self.process = None
set_results_clear ==
    /\ run_pc = "clear_process"
    /\ process' = None
    /\ run_pc' = "done"
    /\ UNCHANGED <<with_snippet, output, returncode, exit_code, thread_results,
                   kill_pc, callback_calls, fired_late>>

\* kill(): the timer fires; "if self.process:"
kill_check ==
    /\ kill_pc = "armed"
    /\ kill_pc' = IF process = None THEN "done" ELSE "poll"
    /\ UNCHANGED <<with_snippet, output, process, returncode, exit_code,
                   thread_results, run_pc, callback_calls>>
    /\ fired_late' = (returncode # None)

\* kill(): "if not self.process.poll():" reads self.process again; poll() is
\* None while the child runs and its exit code afterwards
kill_poll ==
    /\ kill_pc = "poll"
    /\ kill_pc' = IF process = None THEN "AttributeError"
                  ELSE IF Falsy(returncode) THEN "kill"
                  ELSE "clear"
    /\ UNCHANGED <<with_snippet, output, process, returncode, exit_code,
                   thread_results, run_pc, callback_calls, fired_late>>

\* kill(): self.process.kill(). SIGKILL ends a running child with -9; for a
\* child that has ended already, Popen.kill() does nothing or raises
\* ProcessLookupError, by the Python version.
kill_kill ==
    /\ kill_pc = "kill"
    /\ \/ /\ process = None
          /\ kill_pc' = "AttributeError"
          /\ returncode' = returncode
       \/ /\ process # None /\ returncode = None
          /\ returncode' = Some(-9)
          /\ kill_pc' = "clear"
       \/ /\ process # None /\ returncode # None
          /\ returncode' = returncode
          /\ kill_pc' \in {"clear", "ProcessLookupError"}
    /\ UNCHANGED <<with_snippet, output, process, exit_code, thread_results,
                   run_pc, callback_calls, fired_late>>

\* kill(): self.process = None
kill_clear ==
    /\ kill_pc = "clear"
    /\ process' = None
    /\ kill_pc' = "done"
    /\ UNCHANGED <<with_snippet, output, returncode, exit_code, thread_results,
                   run_pc, callback_calls, fired_late>>

RacerNext ==
    \/ child_exits /\ UNCHANGED <<editorVars, envVars>>
    \/ run_set_timeout /\ UNCHANGED <<editorVars, envVars>>
    \/ run_communicate /\ UNCHANGED <<editorVars, envVars>>
    \/ run_read_process /\ UNCHANGED <<editorVars, envVars>>
    \/ run_read_returncode /\ UNCHANGED <<editorVars, envVars>>
    \/ run_parse /\ UNCHANGED <<editorVars, envVars>>
    \/ set_results_callback /\ UNCHANGED <<editorVars, envVars>>
    \/ set_results_clear /\ UNCHANGED <<editorVars, envVars>>
    \/ kill_check /\ UNCHANGED <<editorVars, envVars>>
    \/ kill_poll /\ UNCHANGED <<editorVars, envVars>>
    \/ kill_kill /\ UNCHANGED <<editorVars, envVars>>
    \/ kill_clear /\ UNCHANGED <<editorVars, envVars>>

-----------------------------------------------------------------------------
\* os.path and str.format, as the code uses them

LastIndex(s, c) ==
    IF \E i \in 1..Len(s) : s[i] = c
    THEN CHOOSE i \in 1..Len(s) : s[i] = c /\ \A j \in (i + 1)..Len(s) : s[j] # c
    ELSE 0

RECURSIVE rstrip(_, _)
rstrip(s, chars) ==
    IF s # << >> /\ s[Len(s)] \in chars
    THEN rstrip(SubSeq(s, 1, Len(s) - 1), chars)
    ELSE s

\* os.path.dirname: up to the last slash, without the slashes that end it,
\* unless there is nothing but slashes
dirname(s) ==
    LET head == SubSeq(s, 1, LastIndex(s, "/")) IN
    IF rstrip(head, {"/"}) = << >> THEN head ELSE rstrip(head, {"/"})

basename(s) == SubSeq(s, LastIndex(s, "/") + 1, Len(s))

RECURSIVE spaces(_)
spaces(n) == IF n <= 0 THEN << >> ELSE <<" ">> \o spaces(n - 1)

\* "{:>w}" and "{:w}" of str.format
rjust(s, w) == spaces(w - Len(s)) \o s
ljust(s, w) == s \o spaces(w - Len(s))

RECURSIVE max_of(_, _)
max_of(xs, m) ==
    IF xs = << >> THEN m
    ELSE max_of(Tail(xs), IF Head(xs) > m THEN Head(xs) ELSE m)

ToSet(xs) == {xs[i] : i \in 1..Len(xs)}

-----------------------------------------------------------------------------
\* RacerThread._get_racer_environment

\* the most segments of the RUST_SRC_PATH found in the environment, and the
\* most search paths in the settings
MaxPaths == 2

\* the home directory of the user, and the users of the password database
HOME == <<"/", "h">>
passwd == [name \in {<<"u">>} |-> HOME]

\* an expanduser that leaves every path as it is
expanduser_nothing(path) == path

\* os.path.expanduser: a leading "~" becomes $HOME and a leading "~name" the
\* home of that user, when there is such a user
expanduser(path) ==
    IF ~startswith(path, <<"~">>) THEN path
    ELSE LET j == FirstIndex(Tail(path), "/")
             i == IF j = 0 THEN Len(path) ELSE j
             name == SubSeq(path, 2, i)
             rest == SubSeq(path, i + 1, Len(path))
             expanded(userhome) ==
                 IF rstrip(userhome, {"/"}) \o rest = << >> THEN <<"/">>
                 ELSE rstrip(userhome, {"/"}) \o rest
         IN  IF i = 1 THEN expanded(HOME)
             ELSE IF name \in DOMAIN passwd THEN expanded(passwd[name])
             ELSE path

\* filter(None, parts): the parts that are not empty
filter_none(parts) == SelectSeq(parts, LAMBDA part : part # << >>)

\* list(OrderedDict.fromkeys(paths)): each path once, where it came first
RECURSIVE fromkeys(_, _)
fromkeys(paths, keys) ==
    IF paths = << >> THEN keys
    ELSE IF Head(paths) \in ToSet(keys) THEN fromkeys(Tail(paths), keys)
    ELSE fromkeys(Tail(paths), Append(keys, Head(paths)))

\* the paths _get_racer_environment gathers, before the tildes are expanded
gathered_paths(old, settings_paths, src) ==
    LET kept == filter_none(split(old, ":", Len(old)))
        with_settings == kept \o settings_paths
    IN  IF src # None /\ Val(src) # << >>
        THEN Append(with_settings, Val(src))
        ELSE with_settings

\* the RUST_SRC_PATH _get_racer_environment builds
get_racer_environment(old, settings_paths, src) ==
    LET paths == gathered_paths(old, settings_paths, src)
        expanded == [k \in 1..Len(paths) |-> expanduser(paths[k])]
    IN  join(fromkeys(expanded, << >>), <<":">>)

\* the paths found in the environment and in the settings: absolute ones,
\* ones under the home directory written with and without a tilde
abs_a == <<"/", "a">>
PathPool == {abs_a, HOME \o abs_a, <<"~">> \o abs_a, <<"~", "u">>}

PathLists(pool) == UNION {[1..n -> pool] : n \in 0..MaxPaths}

\* the source paths get_view_src_path gives
SrcPaths == {None, Some(<< >>), Some(abs_a), Some(<<"/", "p", "/", "s", "r", "c">>)}

EnvInit ==
    /\ environ \in {join(l, <<":">>) : l \in PathLists(PathPool \cup {<< >>})}
    /\ search_paths \in PathLists(PathPool)
    /\ thread_src_path \in SrcPaths
    /\ env = None

\* no environment is being built
EnvIdle ==
    /\ environ = << >>
    /\ search_paths = << >>
    /\ thread_src_path = None
    /\ env = None

\* _start_process: env = self._get_racer_environment()
start_process_env ==
    /\ env = None
    /\ env' = Some(get_racer_environment(environ, search_paths, thread_src_path))
    /\ UNCHANGED <<environ, search_paths, thread_src_path>>

-----------------------------------------------------------------------------
\* The editor: two views of one file, and the places the cursor of the
\* active view can be at: (view id, line, column)

Views == {1, 2}
Ids == {<<1, 0, 0>>, <<1, 0, 1>>, <<2, 0, 0>>}

view_file_name(v) == file_name

\* Settings.cargo_bin: the default and the empty path
cargo_default == <<"c", "a", "r", "g", "o">>
CargoBins == {cargo_default, << >>}

-----------------------------------------------------------------------------
\* RustProjectDirWatcher

\* What "cargo locate-project" can answer: it cannot be launched, it exits
\* non-zero, its output is no JSON, JSON without "root", or JSON with the
\* root of the project the file belongs to (whose src is a directory or not).
CargoReplies == {"OSError", "CalledProcessError", "not_json", "no_root",
                 "root_with_src", "root_without_src"}

cargo_root(fname) == dirname(fname) \o <<"/", "C", "a", "r", "g", "o", ".", "t", "o", "m", "l">>

\* _find_src_path_by_file: the exception it raises ("" for none), the value
\* it returns and whether it called check_output
find_src_path_by_file(fname, bin, reply) ==
    IF bin = << >>
    THEN [raised |-> "", value |-> None, ran |-> FALSE]
    ELSE IF reply = "OSError"
    THEN [raised |-> "", value |-> None, ran |-> TRUE]
    ELSE IF reply \in {"CalledProcessError", "no_root"}
    THEN [raised |-> "", value |-> Some(<< >>), ran |-> TRUE]
    ELSE IF reply = "not_json"
    THEN [raised |-> "ValueError", value |-> None, ran |-> TRUE]
    ELSE LET src_path == dirname(cargo_root(fname)) \o <<"/", "s", "r", "c">> IN
         [raised |-> "", ran |-> TRUE,
          value |-> IF reply = "root_with_src" THEN Some(src_path) ELSE Some(<< >>)]

\* dict.get(key, None)
dict_get(d, key) == IF key \in DOMAIN d THEN d[key] ELSE None

\* dict[key] = value
dict_set(d, key, value) == [k \in DOMAIN d \cup {key} |-> IF k = key THEN value ELSE d[k]]

\* a pop that removes nothing
dict_pop_nothing(d, key) == d

\* dict.pop(key, None)
dict_pop(d, key) == [k \in DOMAIN d \ {key} |-> d[k]]

\* get_view_src_path of a view with a file name: what it raises and returns,
\* the cache afterwards, and whether it called the locator and check_output
get_view_src_path(cache, fname, bin, reply) ==
    LET src_path == dict_get(cache, fname) IN
    IF src_path # None
    THEN [raised |-> "", value |-> src_path, cache |-> cache,
          located |-> FALSE, ran |-> FALSE]
    ELSE LET f == find_src_path_by_file(fname, bin, reply) IN
         [raised |-> f.raised, value |-> f.value, located |-> TRUE, ran |-> f.ran,
          cache |-> IF f.raised # "" THEN cache ELSE dict_set(cache, fname, f.value)]

-----------------------------------------------------------------------------
\* RustAutocomplete

get_completions_id == cursor

\* on_racer_results: result.middle
middle(result) == result.type \o <<" ", "(">> \o basename(result.path) \o <<")">>

\* on_racer_results: the (description, snippet) pairs built from raw_results
format_results(raw) ==
    LET lalign == max_of([i \in 1..Len(raw) |->
                            Len(raw[i].completion) + Len(middle(raw[i]))], 0)
        ralign == max_of([i \in 1..Len(raw) |-> Len(raw[i].context)], 0)
        desc(r) == rstrip(r.completion \o <<" ">>
                          \o rjust(middle(r), lalign - Len(r.completion))
                          \o <<" ", ":", " ">> \o ljust(r.context, ralign),
                          {" ", "{"})
    IN  [i \in 1..Len(raw) |-> <<desc(raw[i]), raw[i].snippet>>]

\* The history of a handler's call: its name; for on_query_completions whether
\* the buffer was Rust, what it returned (None, or the completions) and what
\* it raised, what Popen does with the racer executable, what cargo replied,
\* whether the locator and check_output were called, and whether the file had
\* been loaded since its last lookup
NoEvent == [name |-> "", rust |-> FALSE, ret |-> None, raised |-> "", launch |-> "",
            reply |-> "", located |-> FALSE, ran |-> FALSE, reload |-> FALSE]

\* What Popen can do with Settings.racer_bin: start it, find no such file,
\* or fail otherwise (a file that may not be executed)
Launches == {"ok", "FileNotFoundError", "PermissionError"}

\* the most RacerThreads started in one behaviour
MaxRacers == 2

\* on_query_completions: "self.completions_id and self.completions_id ==
\* current_completions_id" (a tuple of three is truthy)
cache_hit(id) == completions_id # None /\ Val(completions_id) = id

\* what on_query_completions records when it returns in a Rust buffer
QueryEvent == [NoEvent EXCEPT !.name = "on_query_completions", !.rust = TRUE]

\* on_query_completions(view, prefix, locations) in the active view, on the
\* editor's thread, up to its test of the cached identity; rust is what
\* view.match_selector answers
query_test(rust) ==
    /\ query_pc = "idle"
    /\ IF ~rust
       THEN /\ event' = [QueryEvent EXCEPT !.rust = FALSE]
            /\ UNCHANGED <<query_pc, auto_complete>>
       ELSE /\ event' = NoEvent
            /\ auto_complete' = FALSE
            /\ query_pc' = IF cache_hit(get_completions_id)
                           THEN "return_cached" ELSE "clear_id"
    /\ UNCHANGED <<cursor, cargo_bin, file_names_cache, completions_id, results,
                   racers, reloaded, results_from>>

\* on_query_completions: "return (list(set(self.results)), ...)"; set(None)
\* is a TypeError
query_return_cached ==
    /\ query_pc = "return_cached"
    /\ query_pc' = "idle"
    /\ event' = IF results = None
                THEN [QueryEvent EXCEPT !.raised = "TypeError"]
                ELSE [QueryEvent EXCEPT !.ret = Some(ToSet(Val(results)))]
    /\ UNCHANGED <<cursor, cargo_bin, file_names_cache, completions_id, results,
                   racers, auto_complete, reloaded, results_from>>

\* a clearing of the identity that clears nothing
query_keep_id ==
    /\ query_pc = "clear_id"
    /\ query_pc' = "clear_results"
    /\ event' = NoEvent
    /\ UNCHANGED <<cursor, cargo_bin, file_names_cache, completions_id, results,
                   racers, auto_complete, reloaded, results_from>>

\* on_query_completions: self.completions_id = None
query_clear_id ==
    /\ query_pc = "clear_id"
    /\ query_pc' = "clear_results"
    /\ completions_id' = None
    /\ event' = NoEvent
    /\ UNCHANGED <<cursor, cargo_bin, file_names_cache, results, racers,
                   auto_complete, reloaded, results_from>>

\* on_query_completions: self.results = None
query_clear_results ==
    /\ query_pc = "clear_results"
    /\ query_pc' = "build"
    /\ results' = None
    /\ results_from' = None
    /\ event' = NoEvent
    /\ UNCHANGED <<cursor, cargo_bin, file_names_cache, completions_id, racers,
                   auto_complete, reloaded>>

\* a RacerThread that on_query_completions has started
NewRacer(id) == [id |-> id, state |-> "started", raw |-> << >>]

\* on_query_completions from its try to its return: the RacerThread is built
\* (with the lookup of the source path, g, and Popen) and started, unless
\* building it raises
start_racer(id, g, reply, launch) ==
    LET started == g.raised = "" /\ launch = "ok" IN
    /\ started => Len(racers) < MaxRacers
    /\ file_names_cache' = g.cache
    /\ racers' = IF started THEN Append(racers, NewRacer(id)) ELSE racers
    /\ event' = [QueryEvent EXCEPT
                    !.located = g.located, !.ran = g.ran,
                    !.launch = launch,
                    !.reply = IF g.ran THEN reply ELSE "",
                    !.reload = view_file_name(id[1]) \in reloaded,
                    !.raised = IF g.raised # "" THEN g.raised
                               ELSE IF launch = "PermissionError"
                               THEN launch ELSE ""]
    /\ reloaded' = reloaded \ {view_file_name(id[1])}

\* What cargo replies and what Popen does are chosen where the code calls them.
query_start_racer ==
    /\ query_pc = "build"
    /\ query_pc' = "idle"
    /\ \E reply \in CargoReplies :
          LET id == get_completions_id
              g == get_view_src_path(file_names_cache, view_file_name(id[1]),
                                     cargo_bin, reply)
          IN  IF g.raised # ""
              THEN start_racer(id, g, reply, "")
              ELSE \E launch \in Launches : start_racer(id, g, reply, launch)
    /\ UNCHANGED <<cursor, cargo_bin, completions_id, results, auto_complete,
                   results_from>>

\* a RacerThread whose run() has ended
Ended == [id |-> <<0, 0, 0>>, state |-> "ended", raw |-> << >>]

\* on_racer_results without its test of the cursor
on_racer_results_unchecked(racer, raw_results) ==
    [racer EXCEPT !.state = "checked", !.raw = format_results(raw_results)]

\* on_racer_results(completions_id, raw_results), the callback of a racer, up
\* to its first assignment: it returns when the cursor is elsewhere, and
\* formats the results otherwise
on_racer_results(racer, raw_results) ==
    IF get_completions_id # racer.id
    THEN Ended
    ELSE [racer EXCEPT !.state = "checked", !.raw = format_results(raw_results)]

\* the outputs of "racer complete-with-snippet" the racers are given: none,
\* three MATCH lines of which two give one label, and a MATCH line cut short
snip_t == <<"t", "(", ")">>
MatchLine(snip, path, context) ==
    match_string \o join(<<compl_foo, snip, <<"3">>, <<"4">>, path, type_Fn, context>>, <<";">>)
EditorOutputs ==
    {Blob(ls) : ls \in
        {<< >>,
         <<MatchLine(snip_s, other_path, <<"f", " ", "{">>),
           MatchLine(snip_t, dev_stdin, <<"f", "(", ")">>),
           MatchLine(snip_t, other_path, <<"f">>)>>,
         <<match_string \o compl_foo>>}}

\* the exit codes run() can see: None after the timer's kill() cleared
\* self.process, 0, another code, -9 after SIGKILL
ExitCodes == {None, Some(0), Some(1), Some(-9)}

\* How run() can end for a buffer of file fname: it raises (AttributeError
\* when kill() clears self.process inside line 140, or what the parsing
\* raises), or it hands results to set_results
run_outcomes(fname) ==
    {[error |-> "AttributeError", results |-> << >>]}
    \cup {run_results(code, out, TRUE, fname) : code \in ExitCodes, out \in EditorOutputs}

\* run() of the i-th racer, on its worker thread, from communicate() to
\* set_results() and the callback it calls, up to the callback's first
\* assignment
racer_run(i) ==
    /\ i \in 1..Len(racers)
    /\ racers[i].state = "started"
    /\ \E r \in run_outcomes(view_file_name(racers[i].id[1])) :
        LET e == [NoEvent EXCEPT !.name = "run"] IN
            IF r.error # ""
            THEN /\ racers' = [racers EXCEPT ![i] = Ended]
                 /\ event' = [e EXCEPT !.raised = r.error]
            ELSE /\ racers' = [racers EXCEPT ![i] = on_racer_results(racers[i], r.results)]
                 /\ event' = [e EXCEPT !.name = IF racers'[i] = Ended
                                                THEN "on_racer_results_return"
                                                ELSE "on_racer_results"]
    /\ UNCHANGED <<cursor, cargo_bin, file_names_cache, completions_id, results,
                   auto_complete, reloaded, query_pc, results_from>>

\* on_racer_results: self.completions_id = completions_id
on_racer_results_set_id(i) ==
    /\ i \in 1..Len(racers)
    /\ racers[i].state = "checked"
    /\ completions_id' = Some(racers[i].id)
    /\ racers' = [racers EXCEPT ![i].state = "set_id"]
    /\ event' = NoEvent
    /\ UNCHANGED <<cursor, cargo_bin, file_names_cache, results, auto_complete,
                   reloaded, query_pc, results_from>>

\* on_racer_results: self.results = results, and the auto_complete command,
\* which touches nothing of the plugin
on_racer_results_set_results(i) ==
    /\ i \in 1..Len(racers)
    /\ racers[i].state = "set_id"
    /\ results' = Some(racers[i].raw)
    /\ results_from' = Some(racers[i].id)
    /\ auto_complete' = TRUE
    /\ racers' = [racers EXCEPT ![i] = Ended]
    /\ event' = [NoEvent EXCEPT !.name = "auto_complete"]
    /\ UNCHANGED <<cursor, cargo_bin, file_names_cache, completions_id, reloaded,
                   query_pc>>

\* RustGotoDefinitionCommand.run(edit): the arguments of RacerThread(...) are
\* evaluated first, and the command has no attribute on_racer_result, so that
\* neither get_view_src_path nor Popen is reached. launch is what Popen would
\* do with the racer executable.
goto_definition_run ==
    /\ query_pc = "idle"
    /\ \E launch \in Launches :
          event' = [NoEvent EXCEPT !.name = "goto_definition",
                                   !.raised = "AttributeError",
                                   !.launch = launch]
    /\ UNCHANGED <<cursor, cargo_bin, file_names_cache, completions_id, results,
                   racers, auto_complete, reloaded, query_pc, results_from>>

\* RustProjectDirWatcher.on_load(view)
on_load(v) ==
    /\ query_pc = "idle"
    /\ file_names_cache' = dict_pop(file_names_cache, view_file_name(v))
    /\ event' = [NoEvent EXCEPT !.name = "on_load"]
    /\ reloaded' = reloaded \cup {view_file_name(v)}
    /\ UNCHANGED <<cursor, cargo_bin, completions_id, results, racers, auto_complete,
                   query_pc, results_from>>

\* Settings.settings_changed: the cargo setting is read again
settings_changed ==
    /\ query_pc = "idle"
    /\ cargo_bin' \in CargoBins \ {cargo_bin}
    /\ event' = [NoEvent EXCEPT !.name = "settings_changed"]
    /\ UNCHANGED <<cursor, file_names_cache, completions_id, results, racers,
                   auto_complete, reloaded, query_pc, results_from>>

\* the user moves the cursor, or makes the other view the active one; the
\* editor does it between two handlers
move_cursor ==
    /\ query_pc = "idle"
    /\ cursor' \in Ids \ {cursor}
    /\ event' = [NoEvent EXCEPT !.name = "move_cursor"]
    /\ UNCHANGED <<cargo_bin, file_names_cache, completions_id, results, racers,
                   auto_complete, reloaded, query_pc, results_from>>

EditorInit ==
    /\ cursor = <<1, 0, 0>>
    /\ cargo_bin = cargo_default
    /\ file_names_cache = [k \in {} |-> None]
    /\ completions_id = None
    /\ results = None
    /\ racers = << >>
    /\ auto_complete = FALSE
    /\ event = NoEvent
    /\ reloaded = {}
    /\ query_pc = "idle"
    /\ results_from = None

\* a racer that is not running, for the behaviours of the editor alone
RacerIdle ==
    /\ with_snippet = TRUE
    /\ output = << >>
    /\ process = None
    /\ returncode = None
    /\ exit_code = None
    /\ thread_results = None
    /\ run_pc = "idle"
    /\ kill_pc = "unset"
    /\ callback_calls = << >>
    /\ fired_late = FALSE

Init == EditorInit /\ RacerIdle /\ EnvIdle

Next ==
    \/ \E rust \in BOOLEAN : query_test(rust) /\ UNCHANGED <<racerVars, envVars>>
    \/ query_return_cached /\ UNCHANGED <<racerVars, envVars>>
    \/ query_clear_id /\ UNCHANGED <<racerVars, envVars>>
    \/ query_clear_results /\ UNCHANGED <<racerVars, envVars>>
    \/ query_start_racer /\ UNCHANGED <<racerVars, envVars>>
    \/ \E i \in 1..MaxRacers : racer_run(i) /\ UNCHANGED <<racerVars, envVars>>
    \/ \E i \in 1..MaxRacers : on_racer_results_set_id(i) /\ UNCHANGED <<racerVars, envVars>>
    \/ \E i \in 1..MaxRacers : on_racer_results_set_results(i) /\ UNCHANGED <<racerVars, envVars>>
    \/ goto_definition_run /\ UNCHANGED <<racerVars, envVars>>
    \/ \E v \in Views : on_load(v) /\ UNCHANGED <<racerVars, envVars>>
    \/ settings_changed /\ UNCHANGED <<racerVars, envVars>>
    \/ move_cursor /\ UNCHANGED <<racerVars, envVars>>

\* the editor with its racers
Spec == Init /\ [][Next]_vars

\* one RacerThread against its timer, for every output of the child
RacerSpecInit == RacerInit /\ EditorInit /\ EnvIdle

RacerSpec == RacerSpecInit /\ [][RacerNext]_vars

\* the environment of one RacerThread, for every search path
EnvSpecInit == EnvInit /\ EditorInit /\ RacerIdle

EnvNext == start_process_env /\ UNCHANGED <<racerVars, editorVars>>

EnvSpec == EnvSpecInit /\ [][EnvNext]_vars

-----------------------------------------------------------------------------
\* The claims about RacerThread (RacerSpec)

RunErrors == {"AttributeError", "IndexError", "ValueError"}

\* run() has read its exit code
ExitCodeRead == run_pc \in {"parse", "set_results", "clear_process", "done",
                            "IndexError", "ValueError"}

\* C2: every started RacerThread calls its callback exactly once, whatever
\* the child's exit and however kill() interleaves with run(). Stated for the
\* runs whose parsing raises nothing: never more than one call, and one call
\* once run() has ended, by returning or by the AttributeError of line 140.
C2_CallbackExactlyOnce ==
    /\ Len(callback_calls) <= 1
    /\ run_pc \in {"done", "AttributeError"} => Len(callback_calls) = 1

\* C3: a timer that fires after the child has exited by itself changes
\* nothing: run() reads the child's exit code, and after exit code 0 the
\* callback gets the results parsed from the child's output.
C3_LateTimerIsNoOp ==
    fired_late =>
        /\ run_pc # "AttributeError"
        /\ ExitCodeRead => exit_code = returncode
        /\ (callback_calls # << >> /\ returncode = Some(0)) =>
               callback_calls[1] = parse_output(output, with_snippet, file_name).results

\* C4: once kill() has run the child has ended, and when the timer killed it
\* run() still ends with one call of the callback, with the empty list.
C4_KilledThenCallback ==
    /\ kill_pc = "done" => returncode # None
    /\ (returncode = Some(-9) /\ run_pc \in {"done"} \cup RunErrors) =>
           callback_calls = << << >> >>

\* the first seven fields of a MATCH line, the context taking the rest
seven_fields(line, snippet) ==
    LET rest == SubSeq(line, Len(match_string) + 1, Len(line)) IN
    IF snippet
    THEN split(rest, ";", 6)
    ELSE insert(split(rest, ",", 5), 1, << >>)

RECURSIVE seven_field_results(_, _, _, _)
seven_field_results(lines, snippet, fname, acc) ==
    IF lines = << >> THEN acc
    ELSE IF ~startswith(Head(lines), match_string)
    THEN seven_field_results(Tail(lines), snippet, fname, acc)
    ELSE seven_field_results(Tail(lines), snippet, fname,
             append_result(acc, Result(seven_fields(Head(lines), snippet)), fname))

\* C9: on exit code 0 the results delivered are those of the MATCH lines, in
\* line order, each line cut into exactly seven fields (completion, snippet,
\* row, column, path, type, context; the snippet empty for find-definition),
\* with /dev/stdin rewritten to the file's path.
C9_SevenFields ==
    (callback_calls # << >> /\ exit_code = Some(0)) =>
        callback_calls[1] =
            seven_field_results(splitlines(output), with_snippet, file_name, << >>)

\* the MATCH lines of the output, by their place in it
MatchLineIdx ==
    {i \in 1..Len(splitlines(output)) : startswith(splitlines(output)[i], match_string)}

\* the path field of the i-th line
PathField(i) == line_parts(splitlines(output)[i], with_snippet)[5]

Delivered(paths) == {k \in 1..Len(callback_calls[1]) : callback_calls[1][k].path \in paths}

\* C10 as stated: no result delivered to the callback has the path of the
\* originating file.
C10_NoSelfPathDelivered ==
    callback_calls # << >> => Delivered({file_name}) = {}

\* C10 as amended: the results delivered are those of the MATCH lines whose
\* path field is not the file's path, and the ones delivered with the file's
\* path are those of the lines whose path field is /dev/stdin.
C10_SelfPathLinesDropped ==
    (callback_calls # << >> /\ exit_code = Some(0)) =>
        /\ Len(callback_calls[1]) =
               Cardinality({i \in MatchLineIdx : PathField(i) # file_name})
        /\ Cardinality(Delivered({file_name})) =
               Cardinality({i \in MatchLineIdx : PathField(i) = dev_stdin})

\* a line of the file's own path was dropped and a /dev/stdin line delivered
C10_Witness ==
    /\ callback_calls # << >>
    /\ exit_code = Some(0)
    /\ \E i \in MatchLineIdx : PathField(i) = file_name
    /\ Delivered({file_name}) # {}

\* the results of the well-formed MATCH lines alone: a MATCH line that
\* Result.__init__ cannot read is passed over
RECURSIVE well_formed_results(_, _, _, _)
well_formed_results(lines, snippet, fname, acc) ==
    IF lines = << >> THEN acc
    ELSE IF \/ ~startswith(Head(lines), match_string)
            \/ ResultError(line_parts(Head(lines), snippet)) # ""
    THEN well_formed_results(Tail(lines), snippet, fname, acc)
    ELSE well_formed_results(Tail(lines), snippet, fname,
             append_result(acc, Result(line_parts(Head(lines), snippet)), fname))

\* C11: a line that is no MATCH line, or a MATCH line with too few fields, is
\* skipped without an error: on exit code 0 run() never ends by an IndexError,
\* and it ends having handed the results of the well-formed lines to the
\* callback.
C11_MalformedLinesSkipped ==
    /\ run_pc # "IndexError"
    /\ (exit_code = Some(0) /\ run_pc \in {"done", "IndexError"}) =>
           callback_calls =
               <<well_formed_results(splitlines(output), with_snippet, file_name, << >>)>>

\* C12: when the child has ended with an exit code that is not 0, run() ends
\* without an error and with one call of the callback, with the empty list,
\* whatever the child wrote.
C12_NonZeroExitEmptyResults ==
    (returncode \notin {None, Some(0)} /\ run_pc \in {"done"} \cup RunErrors) =>
        callback_calls = << << >> >>

-----------------------------------------------------------------------------
\* The claims about the editor's handlers (Spec)

\* the step is the return of on_query_completions from line 244, the cache
\* having been hit
HitReturn == query_pc = "return_cached" /\ query_pc' = "idle"

\* the step is the one that goes past the cache, to the lookup of the source
\* path and to Popen, and returns
LookupStep == query_pc = "build" /\ query_pc' = "idle"

\* C1: a callback whose identity is not the cursor's when it reads the cursor
\* returns there: the cached identity and results are left alone and
\* auto_complete is not run, in that step and ever after by that callback.
C1_StaleCallbackIgnored ==
    [][\A i \in 1..Len(racers) :
          (/\ racers[i].state = "started"
           /\ racers'[i] # racers[i]
           /\ event'.raised = ""
           /\ racers[i].id # cursor)
          => /\ racers'[i] = Ended
             /\ UNCHANGED <<completions_id, results, auto_complete>>]_vars

\* a stale callback has come while another identity stays cached
C1_Witness ==
    /\ event.name = "on_racer_results_return"
    /\ completions_id # None
    /\ results # None
    /\ completions_id # Some(cursor)

\* C5: a query at the cached identity returns the cached results and starts
\* no racer; any other clears the cache, starts exactly one racer for the
\* cursor's identity and returns nothing.
C5_HitOrOneRacer ==
    [][/\ (query_pc = "idle" /\ query_pc' # "idle") =>
              (query_pc' = "return_cached" <=> completions_id = Some(cursor))
       /\ HitReturn =>
              /\ event'.raised = ""
              /\ event'.ret = Some(ToSet(Val(results)))
              /\ UNCHANGED <<completions_id, results, racers>>
       /\ LookupStep =>
              /\ completions_id' = None /\ results' = None
              /\ event'.ret = None
              /\ racers' = Append(racers, NewRacer(cursor))]_vars

\* the racers of view v in flight
InFlight(v) == {i \in 1..Len(racers) : racers[i].state # "ended" /\ racers[i].id[1] = v}

\* the identities of view v that are pending or resolved
PendingOrResolved(v) ==
    {racers[i].id : i \in InFlight(v)}
    \cup (IF completions_id # None /\ Val(completions_id)[1] = v
          THEN {Val(completions_id)} ELSE {})

\* C6 as stated: per view, at most one racer in flight, and at most one
\* identity pending or resolved.
C6_OneIdentityPerView ==
    \A v \in Views :
        /\ Cardinality(InFlight(v)) <= 1
        /\ Cardinality(PendingOrResolved(v)) <= 1

\* C6 as amended: a query that misses sets the cached identity to null, then
\* the cached results, and then starts one racer at most; the racers in
\* flight stay as they are, none is waited for or cancelled.
C6_MissClearsThenStarts ==
    [][/\ (query_pc = "clear_id" /\ query_pc' # query_pc) =>
              completions_id' = None /\ racers' = racers
       /\ (query_pc = "clear_results" /\ query_pc' # query_pc) =>
              results' = None /\ racers' = racers
       /\ LookupStep =>
              racers' \in {racers, Append(racers, NewRacer(cursor))}]_vars

\* a racer of a view is in flight beside another identity of that view,
\* resolved after the racer was started
C6_Witness ==
    /\ completions_id # None
    /\ results # None
    /\ \E v \in Views :
          /\ Val(completions_id)[1] = v
          /\ \E i \in InFlight(v) : racers[i].id # Val(completions_id)

\* C7 as stated: the first lookup of a file after its load event runs the
\* build tool again.
C7_ReloadRunsCargo ==
    [][(LookupStep /\ event'.reload) => event'.ran]_vars

\* C7 as amended: a loaded file has no cache entry until its next lookup, and
\* that lookup calls the locator, which runs the build tool exactly when a
\* build-tool path is configured.
C7_ReloadInvalidates ==
    /\ [](\A f \in reloaded : f \notin DOMAIN file_names_cache)
    /\ [][(LookupStep /\ event'.reload) =>
              /\ event'.located
              /\ event'.ran <=> (cargo_bin # << >>)]_vars

\* a lookup after a load event has run the build tool and stored its answer
C7_Witness ==
    /\ event.name = "on_query_completions"
    /\ event.reload
    /\ event.ran
    /\ \E f \in DOMAIN file_names_cache : file_names_cache[f] \notin {None, Some(<< >>)}

\* C8: a lookup of a file that has a cache entry, whatever the entry holds,
\* does not run the build tool and leaves the cache as it is.
C8_EntryServedWithoutCargo ==
    [][(LookupStep /\ view_file_name(cursor[1]) \in DOMAIN file_names_cache) =>
           /\ ~event'.ran
           /\ file_names_cache' = file_names_cache]_vars

\* C14: no handler run on the editor's thread waits for a child to exit:
\* neither on_query_completions nor the go-to-definition command calls
\* check_output.
C14_HandlersNeverWait ==
    [][(LookupStep \/ event'.name = "goto_definition") => ~event'.ran]_vars

\* C15: a go-to-definition request raises nothing and starts one RacerThread,
\* whose callback is the command's on_racer_results.
C15_GotoIssuesRunner ==
    [][event'.name = "goto_definition" =>
           /\ event'.raised = ""
           /\ Len(racers') = Len(racers) + 1]_vars

\* C16: when racer cannot be launched, a completion request and a
\* go-to-definition request alike return nothing, raise nothing, start no
\* RacerThread and cache no identity.
C16_NoLaunchNoException ==
    [][(/\ event'.name \in {"on_query_completions", "goto_definition"}
        /\ event'.launch = "FileNotFoundError") =>
           /\ event'.ret = None
           /\ event'.raised = ""
           /\ racers' = racers
           /\ UNCHANGED <<completions_id, results>>]_vars

\* C17: the locator raises nothing and returns null without running anything
\* when the build-tool path is empty, null when cargo cannot be launched, the
\* empty string when cargo exits non-zero, when its JSON has no root and when
\* dirname(root) + "/src" is no directory, and dirname(root) + "/src"
\* otherwise; whatever cargo writes, it returns one of these.
C17_LocatorOutcomes ==
    [][(LookupStep /\ event'.located) =>
           LET src == dirname(cargo_root(view_file_name(cursor[1]))) \o <<"/", "s", "r", "c">>
               value == file_names_cache'[view_file_name(cursor[1])]
           IN  /\ event'.raised = ""
               /\ value \in {None, Some(<< >>), Some(src)}
               /\ cargo_bin = << >> => ~event'.ran /\ value = None
               /\ cargo_bin # << >> => event'.ran
               /\ event'.reply = "OSError" => value = None
               /\ event'.reply \in {"CalledProcessError", "no_root", "root_without_src"}
                      => value = Some(<< >>)
               /\ event'.reply = "root_with_src" => value = Some(src)]_vars

\* C18: the completions returned from the cache hold no two entries with one
\* label.
C18_NoTwoSameLabel ==
    (event.name = "on_query_completions" /\ event.ret # None) =>
        \A a, b \in Val(event.ret) : a[1] = b[1] => a = b

\* C19: when a callback has stored its results and run auto_complete, and
\* the cursor is at the identity of that callback's racer, the query that
\* follows hits the cache (and so starts no racer).
C19_ReinvokedQueryHits ==
    [][(/\ auto_complete
        /\ results_from = Some(cursor)
        /\ query_pc = "idle" /\ query_pc' # "idle") =>
           query_pc' = "return_cached"]_vars

\* C20: whenever an identity and results are cached, the results are those
\* stored by the callback of a racer that was started for that identity, so
\* that a query never returns for one identity the results of another.
C20_CachedResultsMatchIdentity ==
    (completions_id # None /\ results # None) => results_from = completions_id

-----------------------------------------------------------------------------
\* The claim about the child's environment (EnvSpec)

\* the segments of a RUST_SRC_PATH
Segments(value) == IF value = << >> THEN << >> ELSE split(value, ":", Len(value))

\* the paths that go into the variable, in order: the segments of the old
\* value, the search paths of the settings, the project's source path when
\* there is one; each with its tilde expanded
ExpandedInputs ==
    LET all == filter_none(Segments(environ)) \o search_paths
               \o (IF thread_src_path \in {None, Some(<< >>)}
                   THEN << >> ELSE <<Val(thread_src_path)>>)
    IN  [k \in 1..Len(all) |-> expanduser(all[k])]

\* where path comes first in paths
FirstAt(paths, path) == CHOOSE k \in 1..Len(paths) :
                            paths[k] = path /\ \A m \in 1..(k - 1) : paths[m] # path

=============================================================================
